---- MODULE Spec2Model ----
(***************************************************************************)
(* The Sentinel-2 processing handler of src/lambda-sentinel-data/          *)
(* sentinel_data.py as a state machine.  One invocation of handler() is a  *)
(* process with a program counter; the record store (DynamoDB table), the  *)
(* blob store (S3 bucket) and scratch storage (/tmp) are shared state.     *)
(*                                                                         *)
(* Coordinates are integers in units of 1e-6 degree, so the radius         *)
(* 0.00001 of validate_coordinates is 10 units.  The code computes the     *)
(* box in binary floating point and re-parses its decimal rendering; the   *)
(* model computes it exactly.                                              *)
(*                                                                         *)
(* Collaborator failures are nondeterministic choices inside the actions,  *)
(* at most MaxFaults of them in one behaviour.  s3.head_object is modelled *)
(* as answering by the presence of the key (a ClientError is the answer    *)
(* "absent", as the code treats it).  Under Spec the invocations run one   *)
(* after the other and share scratch storage (a warm container).           *)
(***************************************************************************)
EXTENDS Integers, Sequences, FiniteSets, TLC

\* ------------------------------------------------------------- bounds
NumInvocations == 2
NumScenes == 3
MaxFeatures == 3
MaxFaults == 1
MinDim == 3
MaxDim == 9

\* ---------------------------------------------------- program constants
Radius == 10
LonMin == 32396000
LonMax == 33234000
LatMin == 39820000
LatMax == 40406000

Invocations == 1..NumInvocations
SceneIds == 1..NumScenes
\* eo:cloud_cover of each scene of the catalog: scenes 2 and 3 tie at the minimum.
CloudCoverOf(s) == <<40, 10, 10, 25>>[((s - 1) % 4) + 1]
Bands == {"nir", "swir", "red"}
Kinds == {"ndmi", "msavi2"}

\* Python's None for an image, and the values of locals not yet assigned.
None == [id |-> 0, cloud_cover |-> 0]
NoResponse == [status_code |-> 0, features |-> <<>>]
NoEvent == [httpMethod |-> "None", uuid |-> "None"]

DefaultLocationId == "70eb8165"
LocationIds == {DefaultLocationId, "u2"}
StatusCreated == "POINT_CREATED"
Bucket == "OUTPUT_BUCKET_NAME"

\* ------------------------------------------------------------ naming
\* f"{image_id}_ndmi.tif" / f"{image_id}_msavi2.tif": the blob key of an artifact.
ArtifactKey(image_id, kind) == <<image_id, kind>>

\* f"https://{bucket_name}.s3.amazonaws.com/{image['id']}_{kind}.tif"
ArtifactUrl(bucket_name, image_id, kind) ==
    [bucket |-> bucket_name, key |-> <<image_id, kind>>]

\* os.path.join(tmp_dir, f"{image['id']}_{band_name}.tif")
BandPath(image_id, band_name) == <<image_id, band_name>>

\* input_path.replace('.tif', '_resampled.tif')
ResampledPath(input_path) == <<input_path[1], input_path[2] \o "_resampled">>

\* f"/tmp/{image['id']}_ndmi.tif", f"/tmp/{image['id']}_msavi2.tif"
OutputPath(image_id, kind) == <<image_id, kind>>

ArtifactKeys == {ArtifactKey(s, k) : s \in SceneIds, k \in Kinds}
Paths == SceneIds \X (Bands \cup {b \o "_resampled" : b \in Bands} \cup Kinds)
NoUrl == [bucket |-> "None", key |-> <<0, "None">>]
NoKey == <<0, "None">>

\* ------------------------------------------------ coordinate validator
\* Variant: latitude and longitude change places.
generate_bbox_latlon(lat, lon, radius) ==
    [x_min |-> lat - radius, y_min |-> lon - radius,
     x_max |-> lat + radius, y_max |-> lon + radius]

\* generate_bbox: (lon - r, lat - r, lon + r, lat + r)
generate_bbox(lat, lon, radius) ==
    [x_min |-> lon - radius, y_min |-> lat - radius,
     x_max |-> lon + radius, y_max |-> lat + radius]

\* handler's local bbox before it is assigned
NoBox == generate_bbox(0, 0, 0)

Result(code, msg, ndmi, msavi2) ==
    [statusCode |-> code, message |-> msg, ndmi |-> ndmi, msavi2 |-> msavi2]

OutOfBounds == Result(400, "Coordinates out of bounds. Must be within Ankara.", NoKey, NoKey)

NoResult == Result(0, "None", NoKey, NoKey)

IsResult(v) == "statusCode" \in DOMAIN v

\* Variant: the east edge is not checked.
validate_coordinates_lax(coords) ==
    LET bbox == generate_bbox(coords.lat, coords.lon, Radius)
    IN  IF bbox.x_min < LonMin \/ bbox.y_min < LatMin \/ bbox.y_max > LatMax
        THEN OutOfBounds
        ELSE bbox

validate_coordinates(coords) ==
    LET bbox == generate_bbox(coords.lat, coords.lon, Radius)
    IN  IF bbox.x_min < LonMin \/ bbox.x_max > LonMax
           \/ bbox.y_min < LatMin \/ bbox.y_max > LatMax
        THEN OutOfBounds
        ELSE bbox

\* ------------------------------------------------------ catalog client
Feature(id, cc) == [id |-> id, cloud_cover |-> cc]
Features == {Feature(s, CloudCoverOf(s)) : s \in SceneIds}

DistinctIds(seq) == \A a, b \in DOMAIN seq : a # b => seq[a].id # seq[b].id

Listings ==
    UNION {{seq \in [1..n -> Features] : DistinctIds(seq)} : n \in 0..MaxFeatures}

\* The answers requests.get(url) can give: a 200 with a listing, a non-200.
CatalogResponses ==
    {[status_code |-> 200, features |-> l] : l \in Listings}
        \cup {[status_code |-> 503, features |-> <<>>]}

\* sorted(images, key=cloud_cover): Python's sort is stable.  Insertion of x
\* behind every element whose key is <= x's key.
RECURSIVE InsertSorted(_, _)
InsertSorted(x, sorted_seq) ==
    IF sorted_seq = <<>> THEN <<x>>
    ELSE IF x.cloud_cover < Head(sorted_seq).cloud_cover
         THEN <<x>> \o sorted_seq
         ELSE <<Head(sorted_seq)>> \o InsertSorted(x, Tail(sorted_seq))

RECURSIVE SortedByCloudCover(_)
SortedByCloudCover(images) ==
    IF images = <<>> THEN <<>>
    ELSE InsertSorted(images[Len(images)],
                      SortedByCloudCover(SubSeq(images, 1, Len(images) - 1)))

\* Variant: of the scenes tied at the minimum the last listed is taken.
fetch_sentinel_image_last_min(response) ==
    IF response.status_code = 200
    THEN IF response.features # <<>>
         THEN LET s == SortedByCloudCover(response.features)
                  m == s[1].cloud_cover
                  last == CHOOSE j \in DOMAIN s :
                             /\ s[j].cloud_cover = m
                             /\ \A k \in DOMAIN s : s[k].cloud_cover = m => k <= j
              IN  s[last]
         ELSE None
    ELSE None

\* fetch_sentinel_image, after the request: a non-200 answer falls off the end
\* of the function, which returns None as well.
fetch_sentinel_image(response) ==
    IF response.status_code = 200
    THEN IF response.features # <<>>
         THEN SortedByCloudCover(response.features)[1]
         ELSE None
    ELSE None

\* ------------------------------------------------------- record store
Item(id, lat, lon, status, ndmi, msavi2) ==
    [LocationID |-> id, coordinates |-> [lat |-> lat, lon |-> lon],
     status |-> status, ndmi |-> ndmi, msavi2 |-> msavi2]

\* table.get_item(...).get("Item") of a key the table does not hold.
NoItem == Item("None", 0, 0, "None", NoUrl, NoUrl)

CenterLat == LatMin + 300000
CenterLon == LonMin + 400000

\* Stored points: one whose box touches two edges of the allow-region exactly
\* (accepted), one strictly inside whose box crosses an edge, and points whose
\* box crosses each of the four edges.
TestCoords ==
    {[lat |-> LatMax - Radius, lon |-> LonMin + Radius],
     [lat |-> CenterLat, lon |-> LonMin + Radius - 1],
     [lat |-> CenterLat, lon |-> LonMin - 1],
     [lat |-> CenterLat, lon |-> LonMax - Radius + 1],
     [lat |-> LatMin + Radius - 1, lon |-> CenterLon],
     [lat |-> LatMax - Radius + 1, lon |-> CenterLon]}

\* ------------------------------------------------------------ classifier
\* process_image of src/api/sentinel_data.py.  A raster dataset is modelled by
\* its grid: RasterXSize columns (width) and RasterYSize rows (height).
Raster(xsize, ysize) == [RasterXSize |-> xsize, RasterYSize |-> ysize]
NoRaster == Raster(0, 0)

\* An array by its shape; a raster of W columns and H rows reads as H rows of
\* W columns.
Array(rows, cols) == [rows |-> rows, cols |-> cols]

\* labels.reshape(msavi2.RasterYSize, msavi2.RasterXSize)
ReshapeLabels(msavi2) == Array(msavi2.RasterYSize, msavi2.RasterXSize)

\* driver.Create(path, xsize, ysize, bands, type) as process_image calls it:
\* driver.Create("/tmp/labels.tif", msavi2.RasterYSize, msavi2.RasterXSize, ...)
CreateLabelsTif(msavi2) == Raster(msavi2.RasterYSize, msavi2.RasterXSize)

\* GetRasterBand(1).WriteArray(labels) raises when the array does not fit into
\* the raster.
ArrayFits(array, raster) ==
    array.cols <= raster.RasterXSize /\ array.rows <= raster.RasterYSize

\* The classifier before it is called.
NoClassify ==
    [pc |-> "idle", msavi2 |-> NoRaster, labels |-> Array(0, 0),
     labels_tif |-> NoRaster, written |-> 0, uploaded |-> NoRaster]

VARIABLES
    table,          \* record store: LocationID -> item, NoItem when absent
    blob,           \* blob store: artifact key -> "absent" or the content stored
    scratch,        \* scratch storage: path -> "absent" or the state of the file
    pc,             \* per invocation: where handler() is
    event,          \* per invocation: the event handler() was called with
    location_data,  \* per invocation: handler's local location_data
    response,       \* per invocation: the catalog's answer inside fetch_sentinel_image
    image,          \* per invocation: handler's local image
    exists,         \* per invocation: ndmi_exists / msavi2_exists of check_existing_images
    bandTask,       \* per invocation and band: the download_band task of the pool
    uploadTask,     \* per invocation and kind: the upload_to_s3 task of the pool
    result,         \* per invocation: what handler() returned
    log,            \* per invocation: the calls it has made to its collaborators
    faults,         \* the collaborator failures that have happened so far
    bbox,           \* per invocation: handler's local bbox
    classify        \* the run of process_image of src/api/sentinel_data.py

vars == <<table, blob, scratch, pc, event, location_data, response, image,
          exists, bandTask, uploadTask, result, log, faults, bbox, classify>>

NoLog ==
    [get_item |-> 0, put_item |-> <<>>, catalog |-> 0, band_get |-> 0,
     head |-> 0, upload |-> 0, warp |-> 0, index |-> 0]

Bump(i, f) == [log EXCEPT ![i][f] = @ + 1]

\* A collaborator fails: at most MaxFaults times in one behaviour.
Fault(i) ==
    /\ faults < MaxFaults
    /\ faults' = faults + 1

NoFault == UNCHANGED faults

\* The state before the first invocation: one stored record, at one of the
\* points of stored_points, nothing in the blob store or in scratch storage.
InitWith(stored_points) ==
    /\ \E c \in stored_points :
          table = [id \in LocationIds |->
                     IF id = DefaultLocationId
                     THEN Item(id, c.lat, c.lon, StatusCreated, NoUrl, NoUrl)
                     ELSE NoItem]
    /\ blob = [k \in ArtifactKeys |-> "absent"]
    /\ scratch = [p \in Paths |-> "absent"]
    /\ pc = [i \in Invocations |-> "idle"]
    /\ event = [i \in Invocations |-> NoEvent]
    /\ location_data = [i \in Invocations |-> NoItem]
    /\ response = [i \in Invocations |-> NoResponse]
    /\ image = [i \in Invocations |-> None]
    /\ exists = [i \in Invocations |-> [k \in Kinds |-> FALSE]]
    /\ bandTask = [i \in Invocations |-> [b \in Bands |-> "none"]]
    /\ uploadTask = [i \in Invocations |-> [k \in Kinds |-> "none"]]
    /\ result = [i \in Invocations |-> NoResult]
    /\ log = [i \in Invocations |-> NoLog]
    /\ bbox = [i \in Invocations |-> NoBox]

Init ==
    /\ InitWith(TestCoords)
    /\ faults = 0
    /\ classify = NoClassify

Finished(i) == pc[i] \in {"returned", "raised"}

Return(i, r) ==
    /\ pc' = [pc EXCEPT ![i] = "returned"]
    /\ result' = [result EXCEPT ![i] = r]

Raise(i) ==
    /\ pc' = [pc EXCEPT ![i] = "raised"]
    /\ UNCHANGED result

Goto(i, label) ==
    /\ pc' = [pc EXCEPT ![i] = label]
    /\ UNCHANGED result

\* ---------------------------------------------------------- handler
MethodNotAllowed == Result(405, "Method not allowed", NoKey, NoKey)

\* Variant: an event without a method passes.
check_http_method_present(ev) ==
    IF ev.httpMethod \notin {"POST", "None"} THEN MethodNotAllowed ELSE NoResult

\* check_http_method, lines 112-120: event.get('httpMethod') != 'POST'
check_http_method(ev) ==
    IF ev.httpMethod # "POST" THEN MethodNotAllowed ELSE NoResult

\* The events handler is called with: a POST with or without a uuid, another
\* method, no method.
Events ==
    [httpMethod : {"POST"}, uuid : {"None", "u2"}]
        \cup [httpMethod : {"GET", "None"}, uuid : {"None"}]

\* handler, lines 164-169: the invocations of this specification run one
\* after the other.
Invoke(i) ==
    /\ pc[i] = "idle"
    /\ \A j \in Invocations : (j < i => Finished(j)) /\ (j > i => pc[j] = "idle")
    /\ \E ev \in Events :
          /\ event' = [event EXCEPT ![i] = ev]
          /\ IF check_http_method(ev) # NoResult
             THEN Return(i, check_http_method(ev))
             ELSE Goto(i, "get_location")
    /\ UNCHANGED <<bbox, classify, faults, table, blob, scratch, location_data, response, image,
                   exists, bandTask, uploadTask, log>>

LocationNotFound == Result(404, "Location not found.", NoKey, NoKey)

\* event.get('pathParameters', {}).get('uuid', default)
LocationIdOf(ev) == IF ev.uuid = "None" THEN DefaultLocationId ELSE ev.uuid

\* Variant: a missing item is not noticed.
get_location_data_blind(item) == item

get_location_data(item) ==
    IF item = NoItem THEN LocationNotFound ELSE item

\* handler, lines 171-175
GetLocationData(i) ==
    /\ pc[i] = "get_location"
    /\ log' = Bump(i, "get_item")
    /\ LET got == get_location_data(table[LocationIdOf(event[i])])
       IN  IF IsResult(got)
           THEN Return(i, got) /\ UNCHANGED location_data
           ELSE /\ location_data' = [location_data EXCEPT ![i] = got]
                /\ Goto(i, "validate")
    /\ UNCHANGED <<bbox, classify, faults, table, blob, scratch, event, response, image, exists,
                   bandTask, uploadTask>>

\* handler, lines 177-181
ValidateCoordinates(i) ==
    /\ pc[i] = "validate"
    /\ LET validated == validate_coordinates(location_data[i].coordinates)
       IN  /\ bbox' = [bbox EXCEPT ![i] = validated]
           /\ IF IsResult(validated) THEN Return(i, validated) ELSE Goto(i, "fetch")
    /\ UNCHANGED <<classify, faults, table, blob, scratch, event, location_data, response,
                   image, exists, bandTask, uploadTask, log>>

\* handler, line 183: the request of fetch_sentinel_image and what it returns.
\* requests.get may also raise (no connection), which nothing catches.
FetchSentinelImage(i) ==
    /\ pc[i] = "fetch"
    /\ \/ \E resp \in CatalogResponses :
             /\ response' = [response EXCEPT ![i] = resp]
             /\ image' = [image EXCEPT ![i] = fetch_sentinel_image(resp)]
             /\ IF resp.status_code = 200 THEN NoFault ELSE Fault(i)
             /\ Goto(i, "fetched")
       \/ /\ Fault(i)
          /\ Raise(i)
          /\ UNCHANGED <<response, image>>
    /\ log' = Bump(i, "catalog")
    /\ UNCHANGED <<bbox, classify, table, blob, scratch, event, location_data, exists,
                   bandTask, uploadTask>>

NoSuitableImage == Result(404, "No suitable image found.", NoKey, NoKey)

\* handler, lines 184-185 and 206-211: if image / else
ImageBranch(i) ==
    /\ pc[i] = "fetched"
    /\ response' = [response EXCEPT ![i] = NoResponse]
    /\ IF image[i] # None
       THEN Goto(i, "check_ndmi")
       ELSE Return(i, NoSuitableImage)
    /\ UNCHANGED <<bbox, classify, faults, table, blob, scratch, event, location_data, image, exists,
                   bandTask, uploadTask, log>>

\* ------------------------------------------------------- cache guard
AlreadyProcessed(image_id) ==
    Result(200, "Image already processed.",
           ArtifactKey(image_id, "ndmi"), ArtifactKey(image_id, "msavi2"))

\* Variants: the guard never hits; the guard hits on either key.
check_existing_images_never(image_id, ndmi_exists, msavi2_exists) == NoResult

check_existing_images_either(image_id, ndmi_exists, msavi2_exists) ==
    IF ndmi_exists \/ msavi2_exists THEN AlreadyProcessed(image_id) ELSE NoResult

\* check_existing_images, lines 152-161
check_existing_images(image_id, ndmi_exists, msavi2_exists) ==
    IF ndmi_exists /\ msavi2_exists THEN AlreadyProcessed(image_id) ELSE NoResult

\* check_existing_images, lines 144-147: the first existence check
HeadNdmi(i) ==
    /\ pc[i] = "check_ndmi"
    /\ log' = Bump(i, "head")
    /\ exists' = [exists EXCEPT
                    ![i]["ndmi"] = blob[ArtifactKey(image[i].id, "ndmi")] # "absent"]
    /\ Goto(i, "check_msavi2")
    /\ UNCHANGED <<bbox, classify, faults, table, blob, scratch, event, location_data, response, image,
                   bandTask, uploadTask>>

\* check_existing_images, lines 148-161, and handler, lines 186-188
HeadMsavi2(i) ==
    /\ pc[i] = "check_msavi2"
    /\ log' = Bump(i, "head")
    /\ LET found == blob[ArtifactKey(image[i].id, "msavi2")] # "absent"
           existing_images_response ==
               check_existing_images(image[i].id, exists[i]["ndmi"], found)
       IN  /\ exists' = [exists EXCEPT ![i]["msavi2"] = found]
           /\ IF existing_images_response # NoResult
              THEN Return(i, existing_images_response)
              ELSE Goto(i, "put_processing")
    /\ UNCHANGED <<bbox, classify, faults, table, blob, scratch, event, location_data, response, image,
                   bandTask, uploadTask>>

\* ----------------------------------------------------- status tracker
LogPut(i, status) == [log EXCEPT ![i].put_item = Append(@, status)]

\* Variant: the work starts without the PROCESSING write.
PutProcessing_skipped(i) ==
    /\ pc[i] = "put_processing"
    /\ bandTask' = [bandTask EXCEPT ![i] = [b \in Bands |-> "submitted"]]
    /\ Goto(i, "download")
    /\ UNCHANGED <<bbox, classify, table, blob, scratch, event, location_data, response, image,
                   exists, uploadTask, log, faults>>

\* handler, lines 190-191, and the submission of the three download tasks
\* (download_sentinel_bands, line 81).  put_item may raise.
PutProcessing(i) ==
    /\ pc[i] = "put_processing"
    /\ LET item == [location_data[i] EXCEPT !.status = "PROCESSING"]
       IN  /\ location_data' = [location_data EXCEPT ![i] = item]
           /\ \/ /\ table' = [table EXCEPT ![item.LocationID] = item]
                 /\ log' = LogPut(i, item.status)
                 /\ bandTask' = [bandTask EXCEPT ![i] = [b \in Bands |-> "submitted"]]
                 /\ Goto(i, "download")
                 /\ NoFault
              \/ /\ Fault(i)
                 /\ Raise(i)
                 /\ UNCHANGED <<table, bandTask, log>>
    /\ UNCHANGED <<bbox, classify, blob, scratch, event, response, image, exists, uploadTask>>

\* -------------------------------------------------------- band fetcher
\* Variant: the band is requested whether or not the file exists.
DownloadExists_always(i, b) ==
    /\ pc[i] = "download"
    /\ bandTask[i][b] = "submitted"
    /\ bandTask' = [bandTask EXCEPT ![i][b] = "get"]
    /\ UNCHANGED <<bbox, classify, faults, table, blob, scratch, pc, event, location_data,
                   response, image, exists, uploadTask, result, log>>

\* download_band, line 67: os.path.exists(local_path)
DownloadExists(i, b) ==
    /\ pc[i] = "download"
    /\ bandTask[i][b] = "submitted"
    /\ bandTask' = [bandTask EXCEPT ![i][b] =
                      IF scratch[BandPath(image[i].id, b)] # "absent"
                      THEN "done" ELSE "get"]
    /\ UNCHANGED <<bbox, classify, faults, table, blob, scratch, pc, event, location_data, response,
                   image, exists, uploadTask, result, log>>

\* What download_band does with the answer of requests.get: it never looks at
\* the status code, so the body of an error answer is written like a raster.
download_band(status_code) ==
    IF status_code = 200 THEN "write_valid" ELSE "write_garbage"

\* download_band, lines 68-69: requests.get, which may raise, then
\* open(local_path, 'wb'), which creates the file empty.
DownloadGet(i, b) ==
    /\ pc[i] = "download"
    /\ bandTask[i][b] = "get"
    /\ \/ \E status_code \in {200, 404} :
             /\ IF status_code = 200 THEN NoFault ELSE Fault(i)
             /\ bandTask' = [bandTask EXCEPT ![i][b] = download_band(status_code)]
             /\ scratch' = [scratch EXCEPT ![BandPath(image[i].id, b)] = "partial"]
       \/ /\ Fault(i)
          /\ bandTask' = [bandTask EXCEPT ![i][b] = "raised"]
          /\ UNCHANGED scratch
    /\ log' = Bump(i, "band_get")
    /\ UNCHANGED <<bbox, classify, table, blob, pc, event, location_data, response, image,
                   exists, uploadTask, result>>

\* download_band, lines 70-71: f.write(response.content), which may raise
\* (scratch storage full) and then leaves the file as it is.
DownloadWrite(i, b) ==
    /\ pc[i] = "download"
    /\ bandTask[i][b] \in {"write_valid", "write_garbage"}
    /\ \/ /\ scratch' = [scratch EXCEPT ![BandPath(image[i].id, b)] =
                           IF bandTask[i][b] = "write_valid" THEN "valid" ELSE "garbage"]
          /\ bandTask' = [bandTask EXCEPT ![i][b] = "done"]
          /\ NoFault
       \/ /\ bandTask' = [bandTask EXCEPT ![i][b] = "raised"]
          /\ Fault(i)
          /\ UNCHANGED scratch
    /\ UNCHANGED <<bbox, classify, table, blob, pc, event, location_data, response, image,
                   exists, uploadTask, result, log>>

\* Variant: the handler goes on as soon as one download task has finished.
DownloadJoin_first(i) ==
    /\ pc[i] = "download"
    /\ \E b \in Bands : bandTask[i][b] \in {"done", "raised"}
    /\ IF \E b \in Bands : bandTask[i][b] = "raised"
       THEN Raise(i)
       ELSE Goto(i, "resample")
    /\ UNCHANGED <<bbox, classify, faults, table, blob, scratch, event, location_data,
                   response, image, exists, bandTask, uploadTask, log>>

\* download_sentinel_bands, lines 80-85: future.result() re-raises what a task
\* raised, and leaving the with block waits for every task of the pool.
DownloadJoin(i) ==
    /\ pc[i] = "download"
    /\ \A b \in Bands : bandTask[i][b] \in {"done", "raised"}
    /\ IF \E b \in Bands : bandTask[i][b] = "raised"
       THEN Raise(i)
       ELSE Goto(i, "resample")
    /\ UNCHANGED <<bbox, classify, faults, table, blob, scratch, event, location_data, response, image,
                   exists, bandTask, uploadTask, log>>

\* ---------------------------------------------------- raster resampler
\* What the raster library makes of a file: a file that holds no raster (absent,
\* or the body of an error answer) cannot be opened; a raster cut short opens
\* or not, and what is read from it is damaged.
Readable(state) == state \in {"valid", "partial", "corrupt"}
Damaged(state) == state \in {"partial", "corrupt"}

\* Variant: the near-infrared band is the one resampled.
ResampleInput_nir(image_id) == BandPath(image_id, "nir")

\* process_sentinel_image, line 96: resample_band(local_paths['swir'], 10, 10)
ResampleInput(image_id) == BandPath(image_id, "swir")

\* resample_band, lines 40-41: gdal.Warp(output_path, gdal.Open(input_path)).
\* gdal raises (UseExceptions) when the input cannot be opened or the warp fails.
ResampleWarp(i) ==
    /\ pc[i] = "resample"
    /\ log' = Bump(i, "warp")
    /\ LET input_path == ResampleInput(image[i].id)
           input == scratch[input_path]
       IN  \/ /\ Readable(input)
              /\ scratch' = [scratch EXCEPT ![ResampledPath(input_path)] =
                               IF Damaged(input) THEN "corrupt" ELSE "valid"]
              /\ Goto(i, "remove")
              /\ NoFault
           \/ /\ input # "valid"
              /\ Raise(i)
              /\ UNCHANGED <<scratch, faults>>
           \/ /\ input = "valid"
              /\ Fault(i)
              /\ Raise(i)
              /\ UNCHANGED scratch
    /\ UNCHANGED <<bbox, classify, table, blob, event, location_data, response, image, exists,
                   bandTask, uploadTask>>

\* resample_band, lines 42-43: os.remove(input_path), which raises when the
\* file is gone.
ResampleRemove(i) ==
    /\ pc[i] = "remove"
    /\ LET input_path == ResampleInput(image[i].id)
       IN  IF scratch[input_path] = "absent"
           THEN Raise(i) /\ UNCHANGED scratch
           ELSE /\ scratch' = [scratch EXCEPT ![input_path] = "absent"]
                /\ Goto(i, "open")
    /\ UNCHANGED <<bbox, classify, table, blob, event, location_data, response, image, exists,
                   bandTask, uploadTask, log, faults>>

\* The scratch paths of the three datasets process_sentinel_image opens.
DatasetPaths(image_id) ==
    [nir |-> BandPath(image_id, "nir"),
     swir |-> ResampledPath(ResampleInput(image_id)),
     red |-> BandPath(image_id, "red")]

\* process_sentinel_image, lines 97-101: gdal.Open of nir, swir and red
OpenBands(i) ==
    /\ pc[i] = "open"
    /\ LET ds == DatasetPaths(image[i].id)
       IN  \/ /\ \A b \in Bands : Readable(scratch[ds[b]])
              /\ Goto(i, "ndmi")
           \/ /\ \E b \in Bands : scratch[ds[b]] # "valid"
              /\ Raise(i)
    /\ UNCHANGED <<bbox, classify, table, blob, scratch, event, location_data, response, image,
                   exists, bandTask, uploadTask, log, faults>>

\* ----------------------------------------------------- index calculator
\* calculate_ndmi / calculate_msavi2: read two bands, write one raster to
\* output_path.  Reading or writing may raise.
Calculate(i, kind, second_band, next_label) ==
    /\ log' = Bump(i, "index")
    /\ LET ds == DatasetPaths(image[i].id)
           a == scratch[ds["nir"]]
           b == scratch[ds[second_band]]
       IN  \/ /\ Readable(a) /\ Readable(b)
              /\ scratch' = [scratch EXCEPT ![OutputPath(image[i].id, kind)] =
                               IF Damaged(a) \/ Damaged(b) THEN "corrupt" ELSE "valid"]
              /\ Goto(i, next_label)
              /\ NoFault
           \/ /\ a # "valid" \/ b # "valid"
              /\ Raise(i)
              /\ UNCHANGED <<scratch, faults>>
           \/ /\ a = "valid" /\ b = "valid"
              /\ Fault(i)
              /\ Raise(i)
              /\ UNCHANGED scratch

\* process_sentinel_image, line 102
CalculateNdmi(i) ==
    /\ pc[i] = "ndmi"
    /\ Calculate(i, "ndmi", "swir", "msavi2")
    /\ UNCHANGED <<bbox, classify, table, blob, event, location_data, response, image, exists,
                   bandTask, uploadTask>>

\* process_sentinel_image, lines 103-108: the second index, then the two
\* upload tasks are submitted.
CalculateMsavi2(i) ==
    /\ pc[i] = "msavi2"
    /\ Calculate(i, "msavi2", "red", "upload")
    /\ uploadTask' = [uploadTask EXCEPT ![i] =
                        IF pc'[i] = "upload"
                        THEN [k \in Kinds |-> "submitted"] ELSE @]
    /\ UNCHANGED <<bbox, classify, table, blob, event, location_data, response, image, exists,
                   bandTask>>

\* ------------------------------------------------------------- upload
\* upload_to_s3, lines 29-32: head_object; the key exists: skip the upload.
UploadHead(i, k) ==
    /\ pc[i] = "upload"
    /\ uploadTask[i][k] = "submitted"
    /\ log' = Bump(i, "head")
    /\ uploadTask' = [uploadTask EXCEPT ![i][k] =
                        IF blob[ArtifactKey(image[i].id, k)] # "absent"
                        THEN "done" ELSE "upload"]
    /\ UNCHANGED <<bbox, classify, table, blob, scratch, pc, event, location_data, response,
                   image, exists, bandTask, result, faults>>

\* upload_to_s3, lines 33-37: upload_file.  A ClientError is logged and
\* swallowed; any other exception leaves the task.
UploadFile(i, k) ==
    /\ pc[i] = "upload"
    /\ uploadTask[i][k] = "upload"
    /\ log' = Bump(i, "upload")
    /\ \/ /\ blob' = [blob EXCEPT ![ArtifactKey(image[i].id, k)] =
                        scratch[OutputPath(image[i].id, k)]]
          /\ uploadTask' = [uploadTask EXCEPT ![i][k] = "done"]
          /\ NoFault
       \/ /\ Fault(i)
          /\ uploadTask' = [uploadTask EXCEPT ![i][k] = "done"]
          /\ UNCHANGED blob
       \/ /\ Fault(i)
          /\ uploadTask' = [uploadTask EXCEPT ![i][k] = "raised"]
          /\ UNCHANGED blob
    /\ UNCHANGED <<bbox, classify, table, scratch, pc, event, location_data, response, image,
                   exists, bandTask, result>>

\* process_sentinel_image, lines 109-110: future.result() of both uploads
UploadJoin(i) ==
    /\ pc[i] = "upload"
    /\ \A k \in Kinds : uploadTask[i][k] \in {"done", "raised"}
    /\ IF \E k \in Kinds : uploadTask[i][k] = "raised"
       THEN Raise(i)
       ELSE Goto(i, "put_processed")
    /\ UNCHANGED <<bbox, classify, table, blob, scratch, event, location_data, response, image,
                   exists, bandTask, uploadTask, log, faults>>

\* Variant: the two URLs are stored in each other's field.
ProcessedItem_swapped(item, bucket_name, image_id) ==
    [item EXCEPT !.status = "PROCESSED",
                 !.ndmi = ArtifactUrl(bucket_name, image_id, "msavi2"),
                 !.msavi2 = ArtifactUrl(bucket_name, image_id, "ndmi")]

\* Variant: the final write puts the record back to its initial status.
ProcessedItem_created(item, bucket_name, image_id) ==
    [item EXCEPT !.status = StatusCreated,
                 !.ndmi = ArtifactUrl(bucket_name, image_id, "ndmi"),
                 !.msavi2 = ArtifactUrl(bucket_name, image_id, "msavi2")]

\* Variant: the final write stores the first URL only.
ProcessedItem_ndmi_only(item, bucket_name, image_id) ==
    [item EXCEPT !.status = "PROCESSED",
                 !.ndmi = ArtifactUrl(bucket_name, image_id, "ndmi")]

\* handler, lines 195-197
ProcessedItem(item, bucket_name, image_id) ==
    [item EXCEPT !.status = "PROCESSED",
                 !.ndmi = ArtifactUrl(bucket_name, image_id, "ndmi"),
                 !.msavi2 = ArtifactUrl(bucket_name, image_id, "msavi2")]

\* handler, lines 200-205
ProcessedSuccessfully(image_id) ==
    Result(200, "Image processed successfully.",
           ArtifactKey(image_id, "ndmi"), ArtifactKey(image_id, "msavi2"))

\* handler, lines 195-205.  put_item may raise.
PutProcessed(i) ==
    /\ pc[i] = "put_processed"
    /\ LET item == ProcessedItem(location_data[i], Bucket, image[i].id)
       IN  /\ location_data' = [location_data EXCEPT ![i] = item]
           /\ \/ /\ table' = [table EXCEPT ![item.LocationID] = item]
                 /\ log' = LogPut(i, item.status)
                 /\ Return(i, ProcessedSuccessfully(image[i].id))
                 /\ NoFault
              \/ /\ Fault(i)
                 /\ Raise(i)
                 /\ UNCHANGED <<table, log>>
    /\ UNCHANGED <<bbox, classify, blob, scratch, event, response, image, exists, bandTask,
                   uploadTask>>

Next ==
    \E i \in Invocations :
        \/ Invoke(i)
        \/ GetLocationData(i)
        \/ ValidateCoordinates(i)
        \/ FetchSentinelImage(i)
        \/ ImageBranch(i)
        \/ HeadNdmi(i)
        \/ HeadMsavi2(i)
        \/ PutProcessing(i)
        \/ \E b \in Bands : DownloadExists(i, b) \/ DownloadGet(i, b) \/ DownloadWrite(i, b)
        \/ DownloadJoin(i)
        \/ ResampleWarp(i)
        \/ ResampleRemove(i)
        \/ OpenBands(i)
        \/ CalculateNdmi(i)
        \/ CalculateMsavi2(i)
        \/ \E k \in Kinds : UploadHead(i, k) \/ UploadFile(i, k)
        \/ UploadJoin(i)
        \/ PutProcessed(i)

Spec == Init /\ [][Next]_vars

\* ================================================ concurrent invocations
\* Two invocations that run at the same time and share the record store, the
\* blob store and scratch storage.  No collaborator fails: what goes wrong
\* here goes wrong by the interleaving alone.
ConcurrentInvocations == {1, 2}

\* handler, lines 164-169, called while another invocation may be running.
InvokeConcurrent(i) ==
    /\ pc[i] = "idle"
    /\ \E ev \in Events :
          /\ event' = [event EXCEPT ![i] = ev]
          /\ IF check_http_method(ev) # NoResult
             THEN Return(i, check_http_method(ev))
             ELSE Goto(i, "get_location")
    /\ UNCHANGED <<bbox, classify, faults, table, blob, scratch, location_data, response,
                   image, exists, bandTask, uploadTask, log>>

InitConcurrent ==
    /\ InitWith({[lat |-> CenterLat, lon |-> CenterLon]})
    /\ faults = MaxFaults
    /\ classify = NoClassify

NextConcurrent ==
    \E i \in ConcurrentInvocations :
        \/ InvokeConcurrent(i)
        \/ GetLocationData(i)
        \/ ValidateCoordinates(i)
        \/ FetchSentinelImage(i)
        \/ ImageBranch(i)
        \/ HeadNdmi(i)
        \/ HeadMsavi2(i)
        \/ PutProcessing(i)
        \/ \E b \in Bands : DownloadExists(i, b) \/ DownloadGet(i, b) \/ DownloadWrite(i, b)
        \/ DownloadJoin(i)
        \/ ResampleWarp(i)
        \/ ResampleRemove(i)
        \/ OpenBands(i)
        \/ CalculateNdmi(i)
        \/ CalculateMsavi2(i)
        \/ \E k \in Kinds : UploadHead(i, k) \/ UploadFile(i, k)
        \/ UploadJoin(i)
        \/ PutProcessed(i)

SpecConcurrent == InitConcurrent /\ [][NextConcurrent]_vars

\* ==================================================== validator alone
\* Stored points on both sides of every edge of the allow-region, at one unit
\* and at one unit more or less than the radius from it.
LonValues ==
    {LonMin - 1, LonMin + 1, LonMin + Radius - 1, LonMin + Radius + 1, CenterLon,
     LonMax - Radius - 1, LonMax - Radius + 1, LonMax - 1, LonMax + 1}

LatValues ==
    {LatMin - 1, LatMin + 1, LatMin + Radius - 1, LatMin + Radius + 1, CenterLat,
     LatMax - Radius - 1, LatMax - Radius + 1, LatMax - 1, LatMax + 1}

GridCoords == [lat : LatValues, lon : LonValues]

InitValidate ==
    /\ InitWith(GridCoords)
    /\ faults = 0
    /\ classify = NoClassify

\* handler up to and including the validation of the coordinates.
NextValidate ==
    \E i \in Invocations :
        \/ Invoke(i)
        \/ GetLocationData(i)
        \/ ValidateCoordinates(i)

SpecValidate == InitValidate /\ [][NextValidate]_vars

\* ================================================== classifier actions
handlerVars ==
    <<table, blob, scratch, pc, event, location_data, response, image, exists,
      bandTask, uploadTask, result, log, faults, bbox>>

\* process_image, lines 58-66: the two rasters are opened and clustered, one
\* label per pixel, and the labels are reshaped to the grid of msavi2.
ClassifyLabels ==
    /\ classify.pc = "start"
    /\ classify' = [classify EXCEPT !.pc = "labelled",
                                    !.labels = ReshapeLabels(classify.msavi2)]
    /\ UNCHANGED handlerVars

\* process_image, lines 68-72: the output raster is created.
ClassifyCreate ==
    /\ classify.pc = "labelled"
    /\ classify' = [classify EXCEPT !.pc = "created",
                                    !.labels_tif = CreateLabelsTif(classify.msavi2)]
    /\ UNCHANGED handlerVars

\* process_image, lines 73-74: the labels are written; an exception other
\* than ClientError leaves process_image.
ClassifyWrite ==
    /\ classify.pc = "created"
    /\ classify' =
          IF ArrayFits(classify.labels, classify.labels_tif)
          THEN [classify EXCEPT !.pc = "written",
                                !.written = classify.labels.rows * classify.labels.cols]
          ELSE [classify EXCEPT !.pc = "raised"]
    /\ UNCHANGED handlerVars

\* process_image, lines 76-79: labels.tif is uploaded and True is returned.
ClassifyUpload ==
    /\ classify.pc = "written"
    /\ classify' = [classify EXCEPT !.pc = "returned",
                                    !.uploaded = classify.labels_tif]
    /\ UNCHANGED handlerVars

\* The index rasters process_image is called with: MinDim..MaxDim columns and
\* rows (KMeans(n_clusters=6) needs six pixels at least).
Dims == MinDim..MaxDim

InitClassify ==
    /\ InitWith({[lat |-> CenterLat, lon |-> CenterLon]})
    /\ faults = 0
    /\ \E w \in Dims, h \in Dims :
          classify = [NoClassify EXCEPT !.pc = "start", !.msavi2 = Raster(w, h)]

NextClassify == ClassifyLabels \/ ClassifyCreate \/ ClassifyWrite \/ ClassifyUpload

SpecClassify == InitClassify /\ [][NextClassify]_vars

\* ================================================================ claims
InitialItem(id) ==
    Item(id, table[id].coordinates.lat, table[id].coordinates.lon,
         StatusCreated, NoUrl, NoUrl)

Posted(i) == pc[i] # "idle" /\ event[i].httpMethod = "POST"
RecordOf(i) == table[LocationIdOf(event[i])]
BoxOf(item) == generate_bbox(item.coordinates.lat, item.coordinates.lon, Radius)
BoxOutside(b) ==
    b.x_min < LonMin \/ b.x_max > LonMax \/ b.y_min < LatMin \/ b.y_max > LatMax

HeavyStarted(i) ==
    \/ \E b \in Bands : bandTask[i][b] \notin {"none", "submitted"}
    \/ \E k \in Kinds : uploadTask[i][k] \notin {"none", "submitted"}
    \/ log[i].band_get > 0 \/ log[i].warp > 0
    \/ log[i].index > 0 \/ log[i].upload > 0

NoHeavyWork(i) ==
    /\ \A b \in Bands : bandTask[i][b] = "none"
    /\ \A k \in Kinds : uploadTask[i][k] = "none"
    /\ log[i].band_get = 0 /\ log[i].warp = 0
    /\ log[i].index = 0 /\ log[i].upload = 0

Wrote(i, status) == \E n \in DOMAIN log[i].put_item : log[i].put_item[n] = status

\* C1: in every run, the record write with status PROCESSING has happened
\* before any band download, resample, index computation or upload of that run
\* starts, and the record write with status PROCESSED (with both URLs) happens
\* only after both upload tasks of that run have completed.
C1_StatusWritesBracketWork ==
    \A i \in Invocations :
        /\ HeavyStarted(i) =>
              /\ log[i].put_item # <<>>
              /\ log[i].put_item[1] = "PROCESSING"
        /\ Wrote(i, "PROCESSED") =>
              /\ log[i].put_item = <<"PROCESSING", "PROCESSED">>
              /\ \A k \in Kinds : uploadTask[i][k] = "done"
              /\ RecordOf(i).ndmi # NoUrl /\ RecordOf(i).msavi2 # NoUrl

C1_Witness ==
    /\ pc[1] = "returned"
    /\ result[1] = ProcessedSuccessfully(image[1].id)
    /\ log[1].put_item = <<"PROCESSING", "PROCESSED">>
    /\ log[1].band_get = 3 /\ log[1].upload = 2

\* C2: a POST for a stored, in-bounds record, with a catalog that lists at
\* least one scene, an empty blob store and no failing collaborator, ends with
\* the record PROCESSED, its two URLs those of the selected scene's artifacts,
\* and a 200 result carrying the two artifact keys.
C2_Case ==
    /\ Finished(1) /\ faults = 0
    /\ \A j \in Invocations : j > 1 => pc[j] = "idle"
    /\ Posted(1)
    /\ RecordOf(1) # NoItem
    /\ ~BoxOutside(BoxOf(RecordOf(1)))
    /\ image[1] # None

PastGuard(i) ==
    pc[i] \notin {"idle", "get_location", "validate", "fetch", "fetched",
                  "check_ndmi", "check_msavi2"}
        /\ image[i] # None

BothExisted(i) == exists[i]["ndmi"] /\ exists[i]["msavi2"]

C4_Case ==
    /\ Finished(1) /\ Finished(2) /\ faults = 0
    /\ \A j \in Invocations : j > 2 => pc[j] = "idle"
    /\ result[1] = ProcessedSuccessfully(image[1].id)
    /\ image[2] # None /\ image[2].id = image[1].id

StoredKeys == {k \in ArtifactKeys : blob[k] # "absent"}

C4_OnePair ==
    /\ StoredKeys = {ArtifactKey(image[1].id, k) : k \in Kinds}
    /\ log[1].upload = 2 /\ log[2].upload = 0
    /\ result[2] = AlreadyProcessed(image[1].id)

C5_Case(i) ==
    /\ Posted(i)
    /\ pc[i] \notin {"get_location", "validate"}
    /\ RecordOf(i) # NoItem
    /\ BoxOutside(BoxOf(RecordOf(i)))

\* C5: the rejection, and what it leaves untouched.
C5_OutOfBoundsRejected ==
    \A i \in Invocations :
        C5_Case(i) =>
            /\ pc[i] = "returned"
            /\ result[i].statusCode = 400
            /\ result[i] = OutOfBounds
            /\ RecordOf(i) = InitialItem(LocationIdOf(event[i]))
            /\ log[i].catalog = 0 /\ log[i].head = 0
            /\ log[i].put_item = <<>>
            /\ NoHeavyWork(i)

C5_Witness ==
    /\ C5_Case(1)
    /\ RecordOf(1).coordinates.lon = LonMin + Radius - 1
    /\ result[1].statusCode = 400

\* C6: every run that has written PROCESSING leaves the record in PROCESSED or
\* FAILED when it ends, and a run ended by an error has written FAILED.
C6_NeverStuckInProcessing ==
    \A i \in Invocations :
        (/\ Finished(i)
         /\ \A j \in Invocations : j > i => pc[j] = "idle"
         /\ Wrote(i, "PROCESSING"))
            => /\ RecordOf(i).status \in {"PROCESSED", "FAILED"}
               /\ pc[i] = "raised" => RecordOf(i).status = "FAILED"

\* C7: an invocation whose location id is not in the record store, or whose
\* catalog query lists zero scenes, returns a 404 result before any band
\* download, index computation or upload and writes nothing to the record
\* store; zero candidates are reported as 'No suitable image found.'.
C7_NotFoundState ==
    \A i \in Invocations :
        /\ result[i].statusCode = 404 =>
              /\ pc[i] = "returned"
              /\ result[i] \in {LocationNotFound, NoSuitableImage}
              /\ NoHeavyWork(i)
              /\ log[i].put_item = <<>>
        /\ (Posted(i) /\ pc[i] # "get_location" /\ RecordOf(i) = NoItem) =>
              /\ pc[i] = "returned"
              /\ result[i] = LocationNotFound
              /\ log[i].catalog = 0 /\ log[i].head = 0

C7_ZeroCandidatesStep ==
    \A i \in Invocations :
        (/\ pc[i] = "fetched"
         /\ response[i] = [status_code |-> 200, features |-> <<>>]
         /\ pc'[i] # pc[i])
            => /\ pc'[i] = "returned"
               /\ result'[i] = NoSuitableImage
               /\ table' = table /\ blob' = blob /\ scratch' = scratch
               /\ log'[i] = log[i]

\* C7: the state part holds always and the zero-candidate step at every step.
C7_NotFoundIsImmediate == [](C7_NotFoundState) /\ [][C7_ZeroCandidatesStep]_vars

C7_Witness ==
    /\ result[1] = LocationNotFound
    /\ result[2] = NoSuitableImage
    /\ faults = 0

\* C8: on a non-200 answer of the catalog, fetch_sentinel_image fails with an
\* error instead of returning, so that the outcome differs from the None it
\* returns for a 200 answer that lists no scene.
C8_NonSuccessIsAnError ==
    \A i \in Invocations :
        pc[i] = "fetched" =>
            /\ response[i].status_code = 200
            /\ result[i] # NoSuitableImage

\* C9: of a non-empty listing the selected scene has the minimum cloud cover,
\* and of the scenes tied at the minimum it is the first listed.
C9_Case(i) ==
    /\ pc[i] = "fetched"
    /\ response[i].status_code = 200
    /\ response[i].features # <<>>

\* C9: minimum cloud cover, first listed among ties.
C9_MinCloudFirstWins ==
    \A i \in Invocations :
        C9_Case(i) =>
            LET fs == response[i].features
            IN  \E n \in DOMAIN fs :
                   /\ image[i] = fs[n]
                   /\ \A m \in DOMAIN fs :
                         /\ fs[m].cloud_cover >= fs[n].cloud_cover
                         /\ fs[m].cloud_cover = fs[n].cloud_cover => m >= n

C9_Witness ==
    /\ C9_Case(1)
    /\ Len(response[1].features) = 3
    /\ response[1].features[1].cloud_cover = 40
    /\ response[1].features[2].cloud_cover = 10
    /\ response[1].features[3].cloud_cover = 10
    /\ image[1] = response[1].features[2]

\* C10: the stages behind the band fetch only ever receive three successfully
\* fetched bands: when the handler goes on to resample, every band file holds
\* the raster a 200 answer delivered.
C10_AllOrNothingFetch ==
    \A i \in Invocations :
        (pc[i] = "resample" \/ log[i].warp > 0) =>
            /\ \A b \in Bands \ {"swir"} :
                  scratch[BandPath(image[i].id, b)] = "valid"
            /\ pc[i] = "resample" => scratch[BandPath(image[i].id, "swir")] = "valid"

\* C11: strict barriers within one invocation.  Resampling and index
\* computation start only after all three band-download tasks have finished,
\* the two upload tasks start only after both index rasters have been written,
\* the PROCESSED write and the return happen only after both upload tasks have
\* finished, and an invocation that ends has no task of a pool still running.
AfterDownload(i) ==
    \/ pc[i] \in {"resample", "remove", "open", "ndmi", "msavi2", "upload",
                  "put_processed"}
    \/ log[i].warp > 0 \/ log[i].index > 0

TaskRunning(state) == state \notin {"none", "done", "raised"}

C11_StrictBarriers ==
    \A i \in Invocations :
        /\ AfterDownload(i) => \A b \in Bands : bandTask[i][b] = "done"
        /\ (\E k \in Kinds : uploadTask[i][k] # "none") =>
              /\ log[i].index = 2
              /\ \A k \in Kinds : scratch[OutputPath(image[i].id, k)] # "absent"
              /\ \A b \in Bands : bandTask[i][b] = "done"
        /\ (pc[i] = "put_processed" \/ Wrote(i, "PROCESSED")
                \/ result[i].message = "Image processed successfully.") =>
              \A k \in Kinds : uploadTask[i][k] = "done"
        /\ Finished(i) =>
              /\ \A b \in Bands : ~TaskRunning(bandTask[i][b])
              /\ \A k \in Kinds : ~TaskRunning(uploadTask[i][k])

C11_Witness ==
    /\ pc[1] = "upload"
    /\ uploadTask[1]["ndmi"] = "done" /\ uploadTask[1]["msavi2"] = "upload"
    /\ log[1].band_get = 3 /\ log[1].index = 2

\* C12: status monotonicity.  The pipeline never writes the initial status
\* back to a record, whatever the number of invocations on it, and the writes
\* of one run are PROCESSING, then PROCESSED, in that order and at most once
\* each.
C12_RunWrites ==
    \A i \in Invocations :
        log[i].put_item \in {<<>>, <<"PROCESSING">>, <<"PROCESSING", "PROCESSED">>}

C12_WriteStep ==
    \A id \in LocationIds :
        table'[id] # table[id] =>
            /\ table'[id].status \in {"PROCESSING", "PROCESSED"}
            /\ table'[id].status \notin {StatusCreated, "CREATED"}

\* C12: the writes of each run always, and every write to the record store.
C12_StatusMonotone == [](C12_RunWrites) /\ [][C12_WriteStep]_vars

C12_Witness ==
    /\ log[1].put_item = <<"PROCESSING", "PROCESSED">>
    /\ log[2].put_item = <<"PROCESSING">>
    /\ RecordOf(2).status = "PROCESSING"
    /\ RecordOf(2).ndmi = ArtifactUrl(Bucket, image[1].id, "ndmi")

\* C17: resampling is applied to the short-wave-infrared band only; once the
\* resampled output has been produced and resample_band has returned, the
\* pre-resample swir file is gone from scratch storage, while the nir and red
\* files are neither resampled nor deleted; when the resampled output cannot
\* be produced the resample step raises and deletes nothing.
AfterResample(i) == pc[i] \in {"open", "ndmi", "msavi2", "upload", "put_processed"}

C17_State ==
    /\ \A s \in SceneIds, b \in Bands \ {"swir"} :
          scratch[ResampledPath(BandPath(s, b))] = "absent"
    /\ \A i \in Invocations :
          /\ log[i].warp <= 1
          /\ pc[i] = "remove" =>
                scratch[ResampledPath(BandPath(image[i].id, "swir"))] # "absent"
          /\ AfterResample(i) =>
                /\ log[i].warp = 1
                /\ scratch[BandPath(image[i].id, "swir")] = "absent"
                /\ scratch[ResampledPath(BandPath(image[i].id, "swir"))] # "absent"
                /\ \A b \in Bands \ {"swir"} :
                      scratch[BandPath(image[i].id, b)] # "absent"

C17_Step ==
    /\ \A s \in SceneIds, b \in Bands \ {"swir"} :
          scratch[BandPath(s, b)] # "absent" => scratch'[BandPath(s, b)] # "absent"
    /\ \A i \in Invocations :
          (pc[i] = "resample" /\ pc'[i] # "resample") =>
              \/ pc'[i] = "remove"
              \/ pc'[i] = "raised" /\ scratch' = scratch

\* C17: the state part always, the step part at every step.
C17_ResampleSwirOnly == [](C17_State) /\ [][C17_Step]_vars

C17_Witness ==
    /\ pc[1] = "open"
    /\ scratch[BandPath(image[1].id, "swir")] = "absent"
    /\ scratch[ResampledPath(BandPath(image[1].id, "swir"))] = "valid"
    /\ scratch[BandPath(image[1].id, "nir")] = "valid"
    /\ scratch[BandPath(image[1].id, "red")] = "valid"

\* C18: a request whose method is not POST, a request without a method
\* included, is answered with the 405 'Method not allowed' result and reads
\* and writes nothing: no record-store call, no catalog query, no blob-store
\* call, no access to scratch storage.
NotPosted(i) == pc[i] # "idle" /\ event[i].httpMethod # "POST"

C18_State ==
    \A i \in Invocations :
        NotPosted(i) =>
            /\ pc[i] = "returned"
            /\ result[i] = MethodNotAllowed
            /\ result[i].statusCode = 405
            /\ log[i] = NoLog
            /\ NoHeavyWork(i)
            /\ location_data[i] = NoItem /\ image[i] = None

C18_Step ==
    \A i \in Invocations :
        (pc[i] = "idle" /\ pc'[i] # "idle" /\ event'[i].httpMethod # "POST") =>
            /\ pc'[i] = "returned"
            /\ table' = table /\ blob' = blob /\ scratch' = scratch

\* C18: the state part always, the step part at every step.
C18_NonPostRejected == [](C18_State) /\ [][C18_Step]_vars

C18_Witness ==
    /\ NotPosted(1) /\ event[1].httpMethod = "None"
    /\ NotPosted(2) /\ event[2].httpMethod = "GET"
    /\ result[1].statusCode = 405 /\ result[2].statusCode = 405

\* C19: band fetch is idempotent per band file.  A download task that finds
\* a file at the band's scratch path sends no request and leaves the file as
\* it is; a request is sent only by a task that found the path absent, and a
\* band file is written only by a task that sent a request.
C19_State ==
    \A i \in Invocations, b \in Bands :
        /\ bandTask[i][b] = "get" => scratch[BandPath(image[i].id, b)] = "absent"
        /\ bandTask[i][b] \in {"write_valid", "write_garbage"} => log[i].band_get > 0

C19_Step ==
    /\ \A i \in Invocations, b \in Bands :
          (bandTask[i][b] = "submitted" /\ bandTask'[i][b] # "submitted") =>
              /\ log'[i].band_get = log[i].band_get
              /\ scratch' = scratch
              /\ IF scratch[BandPath(image[i].id, b)] # "absent"
                 THEN bandTask'[i][b] = "done"
                 ELSE bandTask'[i][b] = "get"
    /\ \A i \in Invocations :
          log'[i].band_get # log[i].band_get =>
              /\ log'[i].band_get = log[i].band_get + 1
              /\ \E b \in Bands :
                    /\ bandTask[i][b] = "get" /\ bandTask'[i][b] # "get"
                    /\ scratch[BandPath(image[i].id, b)] = "absent"
    /\ \A s \in SceneIds, b \in Bands :
          scratch'[BandPath(s, b)] \notin {scratch[BandPath(s, b)], "absent"} =>
              \E i \in Invocations :
                  /\ image[i].id = s
                  /\ bandTask[i][b] \in {"get", "write_valid", "write_garbage"}

\* C19: the state part always, the step part at every step.
C19_FetchOnlyAbsentBands == [](C19_State) /\ [][C19_Step]_vars

C19_Witness ==
    /\ pc[2] = "download"
    /\ bandTask[2]["nir"] = "done" /\ bandTask[2]["red"] = "done"
    /\ bandTask[2]["swir"] = "get"
    /\ log[2].band_get = 0
    /\ scratch[BandPath(image[2].id, "nir")] = "valid"

\* C14: retries are safe.  When the first invocation has failed behind the
\* cache guard and the same request is invoked again and selects the same
\* scene, the second invocation returns, and the record and the blob store are
\* as one failure-free invocation leaves them: the record PROCESSED with the
\* two URLs of the scene, and exactly the two artifacts of the scene stored,
\* both intact.
C14_Case ==
    /\ pc[1] = "raised" /\ log[1].head >= 2
    /\ Finished(2)
    /\ \A j \in Invocations : j > 2 => pc[j] = "idle"
    /\ event[2] = event[1]
    /\ image[2] = image[1]

C14_RetryIsSafe ==
    C14_Case =>
        /\ pc[2] = "returned"
        /\ RecordOf(2) =
              ProcessedItem(InitialItem(LocationIdOf(event[2])), Bucket, image[1].id)
        /\ \A k \in ArtifactKeys :
              blob[k] = IF k[1] = image[1].id THEN "valid" ELSE "absent"

\* C15 as amended: for every stored point whose box (lon-r, lat-r, lon+r,
\* lat+r) lies strictly inside the allow-region, the validator accepts the
\* point and returns that box, with x_min < x_max and y_min < y_max, rather
\* than a validation error.
Validated(i) ==
    /\ Posted(i)
    /\ pc[i] \notin {"get_location", "validate"}
    /\ RecordOf(i) # NoItem

PointStrictlyInside(c) ==
    LonMin < c.lon /\ c.lon < LonMax /\ LatMin < c.lat /\ c.lat < LatMax

BoxStrictlyInside(c) ==
    /\ LonMin < c.lon - Radius /\ c.lon + Radius < LonMax
    /\ LatMin < c.lat - Radius /\ c.lat + Radius < LatMax

Accepted(i) ==
    LET c == RecordOf(i).coordinates
    IN  /\ ~IsResult(bbox[i])
        /\ bbox[i] = [x_min |-> c.lon - Radius, y_min |-> c.lat - Radius,
                      x_max |-> c.lon + Radius, y_max |-> c.lat + Radius]
        /\ bbox[i].x_min < bbox[i].x_max /\ bbox[i].y_min < bbox[i].y_max
        /\ result[i] # OutOfBounds
        /\ pc[i] # "returned"

\* C15 as amended: the box strictly inside is accepted.
C15_BoxInsideAccepted ==
    \A i \in Invocations :
        (Validated(i) /\ BoxStrictlyInside(RecordOf(i).coordinates)) => Accepted(i)

C15_Witness ==
    /\ Validated(1)
    /\ RecordOf(1).coordinates = [lat |-> LatMax - Radius - 1, lon |-> LonMin + Radius + 1]
    /\ pc[1] = "fetch"
    /\ bbox[1].x_min = LonMin + 1 /\ bbox[1].y_max = LatMax - 1

\* C15 as stated: every point strictly inside the allow-region is accepted.
C15_Original ==
    \A i \in Invocations :
        (Validated(i) /\ PointStrictlyInside(RecordOf(i).coordinates)) => Accepted(i)

\* C16: for every input index raster of width W and height H, W different
\* from H included, the classification raster process_image creates has width
\* W and height H, and once the labels have been written it holds one label
\* per input pixel.
ClassifierPastCreate == classify.pc \in {"created", "written", "raised", "returned"}

C16_GridPreserved ==
    ClassifierPastCreate =>
        /\ classify.labels_tif.RasterXSize = classify.msavi2.RasterXSize
        /\ classify.labels_tif.RasterYSize = classify.msavi2.RasterYSize
        /\ classify.pc # "created" =>
              /\ classify.pc # "raised"
              /\ classify.written =
                    classify.msavi2.RasterXSize * classify.msavi2.RasterYSize

\* C13: two invocations that process the same scene at the same time on
\* shared scratch storage and a shared blob store do not corrupt each other:
\* neither reads a band file that is cut short or already deleted (so neither
\* raises, and no raster derived from a damaged file is written), both
\* complete, and when both have ended the blob store holds the two artifacts
\* of the scene intact.
SameScene == image[1] # None /\ image[2] = image[1]

C13_NoInterference ==
    SameScene =>
        /\ \A i \in ConcurrentInvocations : pc[i] # "raised"
        /\ \A p \in Paths : scratch[p] # "corrupt"
        /\ \A k \in ArtifactKeys : blob[k] \in {"absent", "valid"}
        /\ (Finished(1) /\ Finished(2)) =>
              \A k \in Kinds : blob[ArtifactKey(image[1].id, k)] = "valid"

\* C20: when two invocations for the same record run at the same time and
\* both return a 200 result, the record ends PROCESSED, with both URLs
\* populated and both those of the scene of one invocation that wrote
\* PROCESSED: never PROCESSING, never URLs of two different scenes.
C20_Case ==
    /\ pc[1] = "returned" /\ pc[2] = "returned"
    /\ result[1].statusCode = 200 /\ result[2].statusCode = 200
    /\ LocationIdOf(event[1]) = LocationIdOf(event[2])

C21_ProcessedHasArtifacts ==
    /\ \A i \in Invocations :
          (Wrote(i, "PROCESSED")
              \/ result[i].message = "Image processed successfully.") =>
              \A k \in Kinds : blob[ArtifactKey(image[i].id, k)] # "absent"
    /\ \A id \in LocationIds :
          table[id].status = "PROCESSED" =>
              /\ blob[table[id].ndmi.key] # "absent"
              /\ blob[table[id].msavi2.key] # "absent"

\* C22: whenever the handler returns a 200 result with the two artifact
\* keys, 'processed successfully' or the cache guard's 'already processed',
\* the record of the location has at that moment status PROCESSED and its two
\* URLs refer to the artifacts named in the result.
Returns200(i) ==
    /\ pc[i] # "returned" /\ pc'[i] = "returned"
    /\ result'[i].statusCode = 200

C22_SuccessMeansProcessedStep ==
    \A i \in Invocations :
        Returns200(i) =>
            LET rec == table'[LocationIdOf(event[i])]
            IN  /\ rec.status = "PROCESSED"
                /\ rec.ndmi = ArtifactUrl(Bucket, result'[i].ndmi[1], "ndmi")
                /\ rec.msavi2 = ArtifactUrl(Bucket, result'[i].msavi2[1], "msavi2")
                /\ rec.ndmi.key = result'[i].ndmi
                /\ rec.msavi2.key = result'[i].msavi2

\* C22: at every step by which an invocation returns a 200 result.
C22_SuccessMeansProcessed == [][C22_SuccessMeansProcessedStep]_vars

====
